---- MODULE Spec2Model ----
(***************************************************************************)
(* A model of pkg/experimental/epic/epic.go: the EPIC timestamp helpers,   *)
(* the packet-counter helpers and the EPIC MAC (CalcMac / VerifyHVF).      *)
(*                                                                         *)
(* Machine integers are kept at their width.  A w-byte integer is a tuple  *)
(* of w bytes, least significant byte first (uint32: 4 bytes, int64 and    *)
(* time.Duration: 8 bytes, two's complement).  A []byte is a sequence of   *)
(* bytes.  An instant (time.Time) is its int64 count of nanoseconds since  *)
(* the Unix epoch, without a monotonic clock reading.                      *)
(***************************************************************************)
EXTENDS Integers, Sequences, FiniteSets, TLC

Byte == 0..255

\* The sequence f with its elements evaluated once (f itself, as a tuple).
Tuple(f) == f \o <<>>

\* e, evaluated after v: TLC evaluates the argument of an operator when it is
\* first used, which nests the evaluations of a long chain of calls.
Forced(v, e) == IF v = v THEN e ELSE e

Min(a, b) == IF a < b THEN a ELSE b

(***************************************************************************)
(* Fixed-width integers                                                    *)
(***************************************************************************)

\* The w-byte integer holding n (a natural number below 2^31) modulo 2^(8w).
RECURSIVE ToBytes(_, _)
ToBytes(n, w) == IF w = 0 THEN <<>> ELSE <<n % 256>> \o ToBytes(n \div 256, w - 1)

U32(n) == ToBytes(n, 4)
I64(n) == ToBytes(n, 8)

\* a + b + c modulo 2^(8 * Len(a)), c the carry in (0 or 1).
RECURSIVE AddCarry(_, _, _)
AddCarry(a, b, c) ==
    IF a = <<>> THEN <<>>
    ELSE LET s == a[1] + b[1] + c
         IN  <<s % 256>> \o AddCarry(Tail(a), Tail(b), s \div 256)

Add(a, b) == AddCarry(a, b, 0)

\* Two's complement: -a, and a - b, modulo 2^(8 * Len(a)).
Not(a) == Tuple([i \in 1..Len(a) |-> 255 - a[i]])
Zero(w) == Tuple([i \in 1..w |-> 0])
Neg(a) == AddCarry(Not(a), Zero(Len(a)), 1)
Sub(a, b) == AddCarry(a, Not(b), 1)

IsNeg(a) == a[Len(a)] >= 128

\* Unsigned comparison a < b, from the most significant byte down.
RECURSIVE LessU(_, _)
LessU(a, b) ==
    IF a = <<>> THEN FALSE
    ELSE LET n == Len(a)
         IN  IF a[n] # b[n] THEN a[n] < b[n]
             ELSE LessU(SubSeq(a, 1, n - 1), SubSeq(b, 1, n - 1))

\* Signed (two's complement) comparison a < b.
LessS(a, b) ==
    IF IsNeg(a) # IsNeg(b) THEN IsNeg(a) ELSE LessU(a, b)

\* a * m modulo 2^(8 * Len(a)), for a small natural m (m <= 2^20), c the carry.
RECURSIVE MulCarry(_, _, _)
MulCarry(a, m, c) ==
    IF a = <<>> THEN <<>>
    ELSE LET p == a[1] * m + c
         IN  <<p % 256>> \o MulCarry(Tail(a), m, p \div 256)

MulSmall(a, m) == MulCarry(a, m, 0)

\* floor(a / d) for an unsigned a and a small natural d (d <= 2^20): long
\* division from the most significant byte, r the running remainder.
RECURSIVE DivRem(_, _, _)
DivRem(a, d, r) ==
    IF a = <<>> THEN <<>>
    ELSE LET n == Len(a)
             t == r * 256 + a[n]
         IN  DivRem(SubSeq(a, 1, n - 1), d, t % d) \o <<t \div d>>

\* Go's integer division of a signed a by a small positive d: truncated
\* towards zero.
Quo(a, d) == IF IsNeg(a) THEN Neg(DivRem(Neg(a), d, 0)) ELSE DivRem(a, d, 0)

\* Conversions between widths: uint32(x) of an int64, int64(x) of a uint32.
Low32(a) == SubSeq(a, 1, 4)
ZeroExt64(a) == a \o <<0, 0, 0, 0>>

\* Big-endian serialisation (encoding/binary.BigEndian.PutUintNN).
BigEndian(a) == Tuple([i \in 1..Len(a) |-> a[Len(a) + 1 - i]])

(***************************************************************************)
(* AES and CBC encryption (crypto/aes, crypto/cipher)                      *)
(***************************************************************************)

SBox == <<
     99, 124, 119, 123, 242, 107, 111, 197,  48,   1, 103,  43, 254, 215, 171, 118,
    202, 130, 201, 125, 250,  89,  71, 240, 173, 212, 162, 175, 156, 164, 114, 192,
    183, 253, 147,  38,  54,  63, 247, 204,  52, 165, 229, 241, 113, 216,  49,  21,
      4, 199,  35, 195,  24, 150,   5, 154,   7,  18, 128, 226, 235,  39, 178, 117,
      9, 131,  44,  26,  27, 110,  90, 160,  82,  59, 214, 179,  41, 227,  47, 132,
     83, 209,   0, 237,  32, 252, 177,  91, 106, 203, 190,  57,  74,  76,  88, 207,
    208, 239, 170, 251,  67,  77,  51, 133,  69, 249,   2, 127,  80,  60, 159, 168,
     81, 163,  64, 143, 146, 157,  56, 245, 188, 182, 218,  33,  16, 255, 243, 210,
    205,  12,  19, 236,  95, 151,  68,  23, 196, 167, 126,  61, 100,  93,  25, 115,
     96, 129,  79, 220,  34,  42, 144, 136,  70, 238, 184,  20, 222,  94,  11, 219,
    224,  50,  58,  10,  73,   6,  36,  92, 194, 211, 172,  98, 145, 149, 228, 121,
    231, 200,  55, 109, 141, 213,  78, 169, 108,  86, 244, 234, 101, 122, 174,   8,
    186, 120,  37,  46,  28, 166, 180, 198, 232, 221, 116,  31,  75, 189, 139, 138,
    112,  62, 181, 102,  72,   3, 246,  14,  97,  53,  87, 185, 134, 193,  29, 158,
    225, 248, 152,  17, 105, 217, 142, 148, 155,  30, 135, 233, 206,  85,  40, 223,
    140, 161, 137,  13, 191, 230,  66, 104,  65, 153,  45,  15, 176,  84, 187,  22 >>

Rcon == <<1, 2, 4, 8, 16, 32, 64, 128, 27, 54>>

\* Bitwise exclusive or of two bytes.
RECURSIVE XorBits(_, _, _)
XorBits(a, b, n) ==
    IF n = 0 THEN 0
    ELSE ((a + b) % 2) + 2 * XorBits(a \div 2, b \div 2, n - 1)

XorTab == [a \in Byte |-> [b \in Byte |-> XorBits(a, b, 8)]]

Xor(a, b) == XorTab[a][b]

XorSeq(a, b) == Tuple([i \in 1..Len(a) |-> XorTab[a[i]][b[i]]])

\* Multiplication by 2 and by 3 in GF(2^8) modulo x^8 + x^4 + x^3 + x + 1.
Mul2 == [a \in Byte |-> IF a < 128 THEN 2 * a ELSE XorTab[2 * a - 256][27]]
Mul3 == [a \in Byte |-> XorTab[Mul2[a]][a]]

\* The key schedule: the expanded key as a byte sequence of 16 * (Nr + 1)
\* bytes, Nk = Len(key) / 4 words per key and Nr = Nk + 6 rounds.
\* The word that follows the words w.
NextWord(w, nk) ==
    LET i    == Len(w) \div 4
        prev == SubSeq(w, Len(w) - 3, Len(w))
        back == SubSeq(w, Len(w) - 4 * nk + 1, Len(w) - 4 * nk + 4)
        t    == IF i % nk = 0
                THEN <<XorTab[SBox[prev[2] + 1]][Rcon[i \div nk]],
                       SBox[prev[3] + 1], SBox[prev[4] + 1], SBox[prev[1] + 1]>>
                ELSE IF nk > 6 /\ i % nk = 4
                THEN Tuple([j \in 1..4 |-> SBox[prev[j] + 1]])
                ELSE prev
    IN  XorSeq(back, t)

\* w and the n words that follow it.
RECURSIVE ExpandBy(_, _, _)
ExpandBy(w, nk, n) ==
    IF n = 0 THEN w ELSE ExpandBy(w \o NextWord(w, nk), nk, n - 1)

RECURSIVE ExpandFrom(_, _, _)
ExpandFrom(w, nk, total) ==
    IF Len(w) >= total THEN w
    ELSE ExpandFrom(ExpandBy(w, nk, Min(nk, (total - Len(w)) \div 4)), nk, total)

ExpandKey(key) == ExpandFrom(key, Len(key) \div 4, 16 * (Len(key) \div 4 + 7))

\* SubBytes followed by ShiftRows; byte r of column c is st[r + 4c + 1].
SubShift(st) ==
    Tuple([i \in 1..16 |->
        LET r == (i - 1) % 4
            c == (i - 1) \div 4
        IN  SBox[st[r + 4 * ((c + r) % 4) + 1] + 1]])

MixColumns(st) ==
    Tuple([i \in 1..16 |->
        LET r  == (i - 1) % 4
            c  == 4 * ((i - 1) \div 4)
            a0 == st[c + r + 1]
            a1 == st[c + ((r + 1) % 4) + 1]
            a2 == st[c + ((r + 2) % 4) + 1]
            a3 == st[c + ((r + 3) % 4) + 1]
        IN  XorTab[XorTab[Mul2[a0]][Mul3[a1]]][XorTab[a2][a3]]])

AddRoundKey(st, rk, rnd) ==
    Tuple([i \in 1..16 |-> XorTab[st[i]][rk[16 * rnd + i]]])

RECURSIVE Rounds(_, _, _, _)
Rounds(st, rk, rnd, nr) ==
    Forced(st,
        IF rnd = nr THEN AddRoundKey(SubShift(st), rk, rnd)
        ELSE Rounds(AddRoundKey(MixColumns(SubShift(st)), rk, rnd), rk, rnd + 1, nr))

\* cipher.Block.Encrypt with the expanded key rk.
EncryptBlock(rk, blk) ==
    Forced(<<rk, blk>>, Rounds(AddRoundKey(blk, rk, 0), rk, 1, Len(rk) \div 16 - 1))

(***************************************************************************)
(* Bitwise operations on fixed-width integers                              *)
(***************************************************************************)

RECURSIVE AndBits(_, _, _)
AndBits(a, b, n) ==
    IF n = 0 THEN 0
    ELSE ((a % 2) * (b % 2)) + 2 * AndBits(a \div 2, b \div 2, n - 1)

And(a, b) == Tuple([i \in 1..Len(a) |-> AndBits(a[i], b[i], 8)])

\* a | b = (a ^ b) + (a & b), bytewise.
Or(a, b) == Tuple([i \in 1..Len(a) |-> XorTab[a[i]][b[i]] + AndBits(a[i], b[i], 8)])

\* a << 8k and a >> 8k at the width of a.
ShlBytes(a, k) == Zero(k) \o SubSeq(a, 1, Len(a) - k)
ShrBytes(a, k) == SubSeq(a, k + 1, Len(a)) \o Zero(k)

\* The natural number an unsigned a holds (a below 2^31).
RECURSIVE ToNat(_)
ToNat(a) == IF a = <<>> THEN 0 ELSE a[1] + 256 * ToNat(Tail(a))

\* a * b and a / b for time.Duration operands, b a small positive duration.
Mul(a, b) == MulSmall(a, ToNat(b))
Div(a, b) == Quo(a, ToNat(b))

(***************************************************************************)
(* Constants of package epic and of package time                           *)
(***************************************************************************)

Nanosecond  == I64(1)
Microsecond == MulSmall(Nanosecond, 1000)
Millisecond == MulSmall(Microsecond, 1000)
Second      == MulSmall(Millisecond, 1000)

AuthLen == 16
MaxPacketLifetime == MulSmall(Second, 2)
MaxClockSkew == Second
TimestampResolution == MulSmall(Microsecond, 21)
MACBufferSize == 48

zeroInitVector == Zero(16)

\* 1 << 32 as an int64.
TwoPow32 == <<0, 0, 0, 0, 1, 0, 0, 0>>

(***************************************************************************)
(* CreateTimestamp and VerifyTimestamp                                     *)
(*                                                                         *)
(* time.Time.After is the signed comparison of the two instants, Add and   *)
(* Sub are int64 addition and subtraction (Sub saturates only for instants *)
(* more than 292 years apart, which the inputs below never are).           *)
(***************************************************************************)

After(t, u) == LessS(u, t)

\* CreateTimestamp without the clamp of a negative epicTS to 0.
CreateTimestampNoClamp(input, now) ==
    IF After(input, now)
    THEN [err |-> "InvalidTimestampOrder", ts |-> U32(0)]
    ELSE LET epicTS == Sub(Div(Sub(now, input), TimestampResolution), I64(1))
         IN  IF ~LessS(epicTS, TwoPow32)
             THEN [err |-> "TimestampRangeExceeded", ts |-> U32(0)]
             ELSE [err |-> "nil", ts |-> Low32(epicTS)]

\* CreateTimestamp with the range check epicTS > (1 << 32).
CreateTimestampOffByOne(input, now) ==
    IF After(input, now)
    THEN [err |-> "InvalidTimestampOrder", ts |-> U32(0)]
    ELSE LET raw    == Sub(Div(Sub(now, input), TimestampResolution), I64(1))
             epicTS == IF IsNeg(raw) THEN I64(0) ELSE raw
         IN  IF LessS(TwoPow32, epicTS)
             THEN [err |-> "TimestampRangeExceeded", ts |-> U32(0)]
             ELSE [err |-> "nil", ts |-> Low32(epicTS)]

CreateTimestamp(input, now) ==
    IF After(input, now)
    THEN [err |-> "InvalidTimestampOrder", ts |-> U32(0)]
    ELSE LET raw    == Sub(Div(Sub(now, input), TimestampResolution), I64(1))
             epicTS == IF IsNeg(raw) THEN I64(0) ELSE raw
         IN  IF ~LessS(epicTS, TwoPow32)
             THEN [err |-> "TimestampRangeExceeded", ts |-> U32(0)]
             ELSE [err |-> "nil", ts |-> Low32(epicTS)]

\* VerifyTimestamp with an expiry that leaves out MaxClockSkew.
VerifyTimestampNoSkew(timestamp, epicTS, now) ==
    LET diff     == Mul(Add(ZeroExt64(epicTS), I64(1)), TimestampResolution)
        tsSender == Add(timestamp, diff)
        latest   == Add(now, MaxClockSkew)
        expiry   == Add(tsSender, MaxPacketLifetime)
    IN  IF After(tsSender, latest)
        THEN [err |-> "TimestampInFuture", delta |-> Sub(tsSender, latest)]
        ELSE IF After(now, expiry)
        THEN [err |-> "TimestampExpired", delta |-> Sub(now, expiry)]
        ELSE [err |-> "nil", delta |-> I64(0)]

\* VerifyTimestamp with diff = epicTS * TimestampResolution.
VerifyTimestampNoPlusOne(timestamp, epicTS, now) ==
    LET diff     == Mul(ZeroExt64(epicTS), TimestampResolution)
        tsSender == Add(timestamp, diff)
        latest   == Add(now, MaxClockSkew)
        expiry   == Add(Add(tsSender, MaxPacketLifetime), MaxClockSkew)
    IN  IF After(tsSender, latest)
        THEN [err |-> "TimestampInFuture", delta |-> Sub(tsSender, latest)]
        ELSE IF After(now, expiry)
        THEN [err |-> "TimestampExpired", delta |-> Sub(now, expiry)]
        ELSE [err |-> "nil", delta |-> I64(0)]

VerifyTimestamp(timestamp, epicTS, now) ==
    LET diff     == Mul(Add(ZeroExt64(epicTS), I64(1)), TimestampResolution)
        tsSender == Add(timestamp, diff)
        latest   == Add(now, MaxClockSkew)
        expiry   == Add(Add(tsSender, MaxPacketLifetime), MaxClockSkew)
    IN  IF After(tsSender, latest)
        THEN [err |-> "TimestampInFuture", delta |-> Sub(tsSender, latest)]
        ELSE IF After(now, expiry)
        THEN [err |-> "TimestampExpired", delta |-> Sub(now, expiry)]
        ELSE [err |-> "nil", delta |-> I64(0)]

(***************************************************************************)
(* PktCounterFromCore and CoreFromPktCounter                               *)
(***************************************************************************)

\* 0x00FFFFFF
CounterMask == <<255, 255, 255, 0>>

\* PktCounterFromCore without the mask of the counter.
PktCounterFromCoreNoMask(coreID, coreCounter) ==
    Or(ShlBytes(<<coreID, 0, 0, 0>>, 3), coreCounter)

PktCounterFromCore(coreID, coreCounter) ==
    Or(ShlBytes(<<coreID, 0, 0, 0>>, 3), And(coreCounter, CounterMask))

CoreFromPktCounter(counter) ==
    [coreID |-> ShrBytes(counter, 3)[1], coreCounter |-> And(counter, CounterMask)]

(***************************************************************************)
(* The EPIC MAC                                                            *)
(*                                                                         *)
(* A header, a *slayers.SCION, is NilSCION or a record of the four fields  *)
(* the MAC reads: SrcAddrLen (the AddrLen tag, a byte), SrcIA (uint64),    *)
(* RawSrcAddr ([]byte) and PayloadLen (uint16).  A packet identifier       *)
(* (epic.PktID) is a record of Timestamp and Counter, both uint32.         *)
(***************************************************************************)

NilSCION == [isNil |-> TRUE]

PktIDLen == 8
IABytes == 8
BlockSize == 16

\* epic.PktID.SerializeTo: the two fields, big-endian, in PktIDLen bytes.
SerializeTo(pktID) == BigEndian(pktID.Timestamp) \o BigEndian(pktID.Counter)

\* buf with the bytes b stored from (0-based) offset off on: dst[off:] <- b.
Write(buf, off, b) ==
    Tuple([i \in 1..Len(buf) |->
              IF i > off /\ i <= off + Len(b) THEN b[i - off] ELSE buf[i]])

\* copy(buf[off:end], src): as many bytes as the shorter of the two holds.
Copy(buf, off, end, src) == Write(buf, off, SubSeq(src, 1, Min(end - off, Len(src))))

\* int(math.Ceil(float64(n) / float64(d))) for small naturals.
CeilDiv(n, d) == (n + d - 1) \div d

\* prepareMacInput without the zero padding after the payload length.
prepareMacInputNoPadding(pktID, s, timestamp, inputBuffer) ==
    IF s = NilSCION
    THEN [err |-> "MissingHeader", n |-> 0, buf |-> inputBuffer]
    ELSE LET l  == Len(s.RawSrcAddr)
             b1 == Write(inputBuffer, 0, <<s.SrcAddrLen>>)
             b2 == Write(b1, 1, BigEndian(timestamp))
             b3 == Write(b2, 5, SerializeTo(pktID))
             b4 == Write(b3, 5 + PktIDLen, BigEndian(s.SrcIA))
             b5 == Copy(b4, 5 + PktIDLen + IABytes, Len(b4), s.RawSrcAddr)
             b6 == Write(b5, 5 + PktIDLen + IABytes + l, BigEndian(s.PayloadLen))
         IN  [err |-> "nil", n |-> 16 * CeilDiv(23 + l, 16), buf |-> b6]

prepareMacInput(pktID, s, timestamp, inputBuffer) ==
    IF s = NilSCION
    THEN [err |-> "MissingHeader", n |-> 0, buf |-> inputBuffer]
    ELSE LET srcAddr     == s.RawSrcAddr
             l           == Len(srcAddr)
             nrBlocks    == CeilDiv(23 + l, 16)
             inputLength == 16 * nrBlocks
             o1 == 1
             b1 == Write(inputBuffer, 0, <<s.SrcAddrLen>>)
             o2 == o1 + 4
             b2 == Write(b1, o1, BigEndian(timestamp))
             o3 == o2 + PktIDLen
             b3 == Write(b2, o2, SerializeTo(pktID))
             o4 == o3 + IABytes
             b4 == Write(b3, o3, BigEndian(s.SrcIA))
             o5 == o4 + l
             b5 == Copy(b4, o4, Len(b4), srcAddr)
             o6 == o5 + 2
             b6 == Write(b5, o5, BigEndian(s.PayloadLen))
             b7 == Copy(b6, o6, inputLength, zeroInitVector)
         IN  Forced(<<b1, b2, b3, b4, b5, b6>>,
                    [err |-> "nil", n |-> inputLength, buf |-> b7])

\* aes.NewCipher accepts keys of 16, 24 and 32 bytes; the block mode is CBC
\* encryption from the zero initialization vector.
initEpicMac(key) ==
    IF Len(key) \notin {16, 24, 32}
    THEN [err |-> "KeyInitError", rk |-> <<>>, iv |-> <<>>]
    ELSE [err |-> "nil", rk |-> ExpandKey(key), iv |-> zeroInitVector]

\* cipher.BlockMode.CryptBlocks(src, src) of the CBC encrypter: each block is
\* xored with the previous ciphertext block (first the iv) and encrypted.
RECURSIVE CryptBlocks(_, _, _)
CryptBlocks(rk, iv, src) ==
    IF src = <<>> THEN <<>>
    ELSE LET c == EncryptBlock(rk, XorSeq(SubSeq(src, 1, BlockSize), iv))
         IN  Forced(c, c \o CryptBlocks(rk, c, SubSeq(src, BlockSize + 1, Len(src))))

\* What a call of CalcMac leaves: err; buffer, the caller's buffer after the
\* call; and, when err is "nil", the returned slice, bytes lo..hi-1 of a
\* storage whose contents are store: the caller's buffer (fresh = FALSE) or
\* the storage CalcMac allocated (fresh = TRUE).
NoMac(e, buffer) ==
    [err |-> e, buffer |-> buffer, fresh |-> FALSE, store |-> <<>>, lo |-> 0, hi |-> 0]

\* CalcMac that allocates also for a buffer of exactly MACBufferSize bytes.
CalcMacAllocAtSize(auth, pktID, s, timestamp, buffer) ==
    LET fresh == Len(buffer) <= MACBufferSize
        work  == IF fresh THEN Zero(MACBufferSize) ELSE buffer
        f     == initEpicMac(auth)
    IN  IF f.err # "nil" THEN NoMac(f.err, buffer)
        ELSE LET p == prepareMacInput(pktID, s, timestamp, work)
             IN  IF p.err # "nil"
                 THEN NoMac(p.err, IF fresh THEN buffer ELSE p.buf)
                 ELSE LET out == CryptBlocks(f.rk, f.iv, SubSeq(p.buf, 1, p.n))
                                     \o SubSeq(p.buf, p.n + 1, Len(p.buf))
                      IN  [err    |-> "nil",
                           buffer |-> IF fresh THEN buffer ELSE out,
                           fresh  |-> fresh,
                           store  |-> out,
                           lo     |-> p.n - BlockSize,
                           hi     |-> p.n - BlockSize + 4]

\* CalcMac that prepares the input before it initializes the cipher.
CalcMacHeaderFirst(auth, pktID, s, timestamp, buffer) ==
    LET fresh == Len(buffer) < MACBufferSize
        work  == IF fresh THEN Zero(MACBufferSize) ELSE buffer
        p     == prepareMacInput(pktID, s, timestamp, work)
    IN  IF p.err # "nil" THEN NoMac(p.err, IF fresh THEN buffer ELSE p.buf)
        ELSE LET f == initEpicMac(auth)
             IN  IF f.err # "nil" THEN NoMac(f.err, IF fresh THEN buffer ELSE p.buf)
                 ELSE LET out == CryptBlocks(f.rk, f.iv, SubSeq(p.buf, 1, p.n))
                                     \o SubSeq(p.buf, p.n + 1, Len(p.buf))
                      IN  [err    |-> "nil",
                           buffer |-> IF fresh THEN buffer ELSE out,
                           fresh  |-> fresh,
                           store  |-> out,
                           lo     |-> p.n - BlockSize,
                           hi     |-> p.n - BlockSize + 4]

CalcMac(auth, pktID, s, timestamp, buffer) ==
    LET fresh == Len(buffer) < MACBufferSize
        work  == IF fresh THEN Zero(MACBufferSize) ELSE buffer
        f     == initEpicMac(auth)
    IN  IF f.err # "nil" THEN NoMac(f.err, buffer)
        ELSE LET p == prepareMacInput(pktID, s, timestamp, work)
             IN  IF p.err # "nil"
                 THEN NoMac(p.err, IF fresh THEN buffer ELSE p.buf)
                 ELSE LET out == CryptBlocks(f.rk, f.iv, SubSeq(p.buf, 1, p.n))
                                     \o SubSeq(p.buf, p.n + 1, Len(p.buf))
                      IN  [err    |-> "nil",
                           buffer |-> IF fresh THEN buffer ELSE out,
                           fresh  |-> fresh,
                           store  |-> out,
                           lo     |-> p.n - BlockSize,
                           hi     |-> p.n - BlockSize + 4]

\* The bytes of the slice a successful CalcMac returned, read right after it.
MacBytes(r) == SubSeq(r.store, r.lo + 1, r.hi)

\* A []byte the caller passes as hvf: bytes of its own (alias = FALSE), or a
\* view of bytes lo..hi-1 of the scratch buffer it passes as well.
OwnBytes(b) == [alias |-> FALSE, bytes |-> b, lo |-> 0, hi |-> 0]
ViewOf(lo, hi) == [alias |-> TRUE, bytes |-> <<>>, lo |-> lo, hi |-> hi]
Read(slice, buffer) ==
    IF slice.alias THEN SubSeq(buffer, slice.lo + 1, slice.hi) ELSE slice.bytes

\* subtle.ConstantTimeCompare: 0 when the lengths differ, else 1 exactly when
\* the or of the bytewise xors is 0.
RECURSIVE OrFold(_)
OrFold(x) == IF x = <<>> THEN 0 ELSE IF x[1] # 0 THEN 1 ELSE OrFold(Tail(x))

ConstantTimeCompare(x, y) ==
    IF Len(x) # Len(y) THEN 0
    ELSE IF OrFold(XorSeq(x, y)) = 0 THEN 1 ELSE 0

\* VerifyHVF.  mac is the outcome of its call CalcMac(auth, pktID, s,
\* timestamp, buffer), which the caller's action evaluates once for all the
\* hvf it tries; mac is not looked at when the input is invalid, and then
\* the action does not evaluate the call either.
VerifyHVF(auth, pktID, s, timestamp, hvf, buffer, mac) ==
    IF s = NilSCION \/ Len(auth) # AuthLen
    THEN [err |-> "InvalidInput", buffer |-> buffer]
    ELSE IF mac.err # "nil" THEN [err |-> mac.err, buffer |-> mac.buffer]
         ELSE IF ConstantTimeCompare(Read(hvf, mac.buffer), MacBytes(mac)) = 0
         THEN [err |-> "MacMismatch", buffer |-> mac.buffer]
         ELSE [err |-> "nil", buffer |-> mac.buffer]

(***************************************************************************)
(* State                                                                   *)
(*                                                                         *)
(* fin, fout      one call of a pure function: its inputs, and the results *)
(*                of the calls made so far (SpecFun).                      *)
(* scratch, held, a caller that calls CalcMac and VerifyHVF one after the  *)
(* last, ncalls   other with one scratch buffer (Spec): the buffer, the    *)
(*                slices earlier CalcMac calls returned, the call that has *)
(*                just returned, and the number of calls made.             *)
(* bufs, procs    goroutines that call CalcMac and VerifyHVF concurrently  *)
(*                (SpecConc): the scratch buffers and each goroutine's     *)
(*                position and locals.                                     *)
(***************************************************************************)
VARIABLES fin, fout, scratch, held, last, ncalls, bufs, procs

vars == <<fin, fout, scratch, held, last, ncalls, bufs, procs>>

NoCall == [op |-> "none"]

FunIdle  == fin = [fn |-> "none"] /\ fout = <<>>
SeqIdle  == scratch = <<>> /\ held = <<>> /\ last = NoCall /\ ncalls = 0
ConcIdle == bufs = <<>> /\ procs = <<>>

(***************************************************************************)
(* SpecFun: the pure functions, each applied to inputs drawn in Init       *)
(***************************************************************************)

Seconds(n) == MulSmall(Second, n)

\* The reference instant: 2020-09-13 12:26:40 UTC, in Unix nanoseconds.
T0 == MulSmall(Seconds(40000), 40000)

\* The least elapsed duration CreateTimestamp refuses: (2^32 + 1) * 21us.
RangeEdge == Mul(Add(TwoPow32, I64(1)), TimestampResolution)

\* now - input for the sender, input not after now.
Elapsed ==
    { I64(0), I64(1), I64(20999), I64(21000), I64(21001), I64(41999),
      I64(42000), I64(42001), I64(43000), I64(63000), Second,
      Seconds(90180), Seconds(90240),
      Sub(RangeEdge, I64(21000)), Sub(RangeEdge, I64(1)), RangeEdge }

\* input - now for an input after now.
Early == { I64(1), Microsecond, Second, Seconds(90240) }

\* The verifier's instant minus the sender's now.
VerifierLag ==
    { Neg(Seconds(2)), Sub(I64(20999), Second), Sub(I64(21000), Second), I64(0),
      Sub(Seconds(3), I64(21000)), Sub(Seconds(3), I64(20999)),
      Sub(Seconds(3), I64(20998)), Seconds(3), Add(Seconds(3), I64(1)),
      Seconds(4) }

TimestampInputs ==
    { [fn |-> "CreateTimestamp", input |-> T0, now |-> Add(T0, e),
       vnow |-> Add(Add(T0, e), w)] : e \in Elapsed, w \in VerifierLag }
    \cup
    { [fn |-> "CreateTimestamp", input |-> Add(T0, x), now |-> T0,
       vnow |-> T0] : x \in Early }

\* The sender's instant the verifier reconstructs, less the verifier's now.
SenderAhead ==
    { Neg(Add(Seconds(3), Microsecond)), Neg(Add(Seconds(3), I64(1))),
      Neg(Seconds(3)), Neg(Sub(Seconds(3), I64(1))), Neg(Second), I64(0),
      Sub(Second, I64(1)), Second, Add(Second, I64(1)), Add(Second, Microsecond),
      Seconds(5) }

EpicTSInputs == { U32(0), U32(1), U32(1000), <<255, 255, 255, 255>> }

\* timestamp + (epicTS + 1) * 21us, as the verifier reconstructs it.
SenderInstant(timestamp, epicTS) ==
    Add(timestamp, Mul(Add(ZeroExt64(epicTS), I64(1)), TimestampResolution))

VerifyInputs ==
    { [fn |-> "VerifyTimestamp", timestamp |-> T0, epicTS |-> e,
       now |-> Sub(SenderInstant(T0, e), a)] : e \in EpicTSInputs, a \in SenderAhead }

CoreIDs == {0, 1, 127, 128, 255}

CoreCounters ==
    { U32(0), U32(42), <<255, 255, 255, 0>>, <<0, 0, 0, 1>>, <<42, 0, 0, 1>>,
      <<1, 2, 3, 128>>, <<255, 255, 255, 255>> }

CounterInputs ==
    { [fn |-> "PktCounterFromCore", coreID |-> c, coreCounter |-> n] :
        c \in CoreIDs, n \in CoreCounters }

CreateTimestampCall ==
    /\ fin.fn = "CreateTimestamp"
    /\ fout = <<>>
    /\ fout' = <<CreateTimestamp(fin.input, fin.now)>>
    /\ UNCHANGED <<fin, scratch, held, last, ncalls, bufs, procs>>

\* The verifier checks, at vnow, the timestamp the sender created.
VerifyCreatedCall ==
    /\ fin.fn = "CreateTimestamp"
    /\ Len(fout) = 1
    /\ fout[1].err = "nil"
    /\ fout' = Append(fout, VerifyTimestamp(fin.input, fout[1].ts, fin.vnow))
    /\ UNCHANGED <<fin, scratch, held, last, ncalls, bufs, procs>>

VerifyTimestampCall ==
    /\ fin.fn = "VerifyTimestamp"
    /\ fout = <<>>
    /\ fout' = <<VerifyTimestamp(fin.timestamp, fin.epicTS, fin.now)>>
    /\ UNCHANGED <<fin, scratch, held, last, ncalls, bufs, procs>>

PktCounterFromCoreCall ==
    /\ fin.fn = "PktCounterFromCore"
    /\ fout = <<>>
    /\ fout' = <<PktCounterFromCore(fin.coreID, fin.coreCounter)>>
    /\ UNCHANGED <<fin, scratch, held, last, ncalls, bufs, procs>>

CoreFromPktCounterCall ==
    /\ fin.fn = "PktCounterFromCore"
    /\ Len(fout) = 1
    /\ fout' = Append(fout, CoreFromPktCounter(fout[1]))
    /\ UNCHANGED <<fin, scratch, held, last, ncalls, bufs, procs>>

\* Inputs of the MAC functions.
Header(tag, raw, payloadLen) ==
    [SrcAddrLen |-> tag, SrcIA |-> <<16, 1, 0, 0, 0, 255, 1, 0>>,
     RawSrcAddr |-> raw, PayloadLen |-> payloadLen]

H4  == Header(0, <<10, 0, 0, 1>>, <<100, 0>>)
H8  == Header(1, <<10, 0, 0, 1, 172, 16, 0, 9>>, <<100, 0>>)
H12 == Header(2, <<1, 2, 3, 4, 5, 6, 7, 8, 9, 10, 11, 12>>, <<220, 5>>)
H16 == Header(3, <<254, 128, 0, 0, 0, 0, 0, 0, 2, 0, 94, 255, 254, 0, 83, 1>>, <<255, 255>>)

ID1 == [Timestamp |-> U32(7), Counter |-> PktCounterFromCore(1, U32(42))]
ID2 == [Timestamp |-> <<1, 2, 3, 4>>, Counter |-> PktCounterFromCore(255, <<255, 255, 255, 0>>)]

\* A buffer of n bytes none of which is zero.
Filled(n) == Tuple([i \in 1..n |-> 255 - (i % 7)])

EncodeInputs ==
    { [fn |-> "prepareMacInput", pktID |-> id, s |-> h, timestamp |-> t,
       inputBuffer |-> b] :
        id \in {ID1, ID2}, h \in {NilSCION, H4, H8, H12, H16},
        t \in {U32(0), <<4, 3, 2, 1>>},
        b \in {Zero(MACBufferSize), Filled(MACBufferSize), Filled(MACBufferSize + 16)} }

PrepareMacInputCall ==
    /\ fin.fn = "prepareMacInput"
    /\ fout = <<>>
    /\ fout' = <<prepareMacInput(fin.pktID, fin.s, fin.timestamp, fin.inputBuffer)>>
    /\ UNCHANGED <<fin, scratch, held, last, ncalls, bufs, procs>>

InitFun ==
    /\ fin \in TimestampInputs \cup VerifyInputs \cup CounterInputs \cup EncodeInputs
    /\ fout = <<>>
    /\ SeqIdle
    /\ ConcIdle

NextFun ==
    \/ CreateTimestampCall
    \/ VerifyCreatedCall
    \/ VerifyTimestampCall
    \/ PktCounterFromCoreCall
    \/ CoreFromPktCounterCall
    \/ PrepareMacInputCall

SpecFun == InitFun /\ [][NextFun]_vars

(***************************************************************************)
(* Properties of the pure functions (checked under SpecFun)                *)
(***************************************************************************)

Leq(a, b) == ~LessS(b, a)

\* The calls of VerifyTimestamp a state records: its three arguments and
\* what it returned.
VerifyCalls ==
    IF fin.fn = "VerifyTimestamp" /\ Len(fout) = 1
    THEN {[timestamp |-> fin.timestamp, epicTS |-> fin.epicTS, now |-> fin.now,
           r |-> fout[1]]}
    ELSE IF fin.fn = "CreateTimestamp" /\ Len(fout) = 2
    THEN {[timestamp |-> fin.input, epicTS |-> fout[1].ts, now |-> fin.vnow,
           r |-> fout[2]]}
    ELSE {}

\* C2: VerifyTimestamp(timestamp, epicTS, now) succeeds exactly when
\* now - 3s <= senderInstant <= now + 1s, with senderInstant = timestamp +
\* (epicTS + 1) * 21us; a senderInstant after now + 1s gives
\* TimestampInFuture and one before now - 3s gives TimestampExpired, each
\* with the positive overshoot beyond its bound as delta.
C2_VerifyWindow ==
    \A c \in VerifyCalls :
        LET sender == SenderInstant(c.timestamp, c.epicTS)
            oldest == Sub(c.now, Seconds(3))
            newest == Add(c.now, Seconds(1))
        IN  /\ (c.r.err = "nil") <=> (Leq(oldest, sender) /\ Leq(sender, newest))
            /\ LessS(newest, sender) =>
                  /\ c.r.err = "TimestampInFuture"
                  /\ c.r.delta = Sub(sender, newest)
                  /\ LessS(I64(0), c.r.delta)
            /\ LessS(sender, oldest) =>
                  /\ c.r.err = "TimestampExpired"
                  /\ c.r.delta = Sub(oldest, sender)
                  /\ LessS(I64(0), c.r.delta)

\* C2 (witness): a packet whose sender instant is one microsecond older than
\* now - 3s was rejected as expired, with a delta of one microsecond.
C2_Witness ==
    /\ fin.fn = "VerifyTimestamp"
    /\ Len(fout) = 1
    /\ Add(SenderInstant(fin.timestamp, fin.epicTS), Add(Seconds(3), Microsecond)) = fin.now
    /\ fout[1] = [err |-> "TimestampExpired", delta |-> Microsecond]

\* The calls of CreateTimestamp a state records, with now - input.
CreateCalls ==
    IF fin.fn = "CreateTimestamp" /\ Len(fout) >= 1
    THEN {[input |-> fin.input, now |-> fin.now, elapsed |-> Sub(fin.now, fin.input),
           r |-> fout[1]]}
    ELSE {}

\* v = max(0, floor(elapsed / 21us) - 1), stated without division.
IsEpicTSOf(v, elapsed) ==
    IF LessS(elapsed, I64(42000)) THEN v = I64(0)
    ELSE /\ Leq(MulSmall(Add(v, I64(1)), 21000), elapsed)
         /\ LessS(elapsed, MulSmall(Add(v, I64(2)), 21000))

\* C3: CreateTimestamp(input, now) fails with InvalidTimestampOrder exactly
\* when input is after now; when it succeeds it returns
\* max(0, floor((now - input) / 21us) - 1), which is 0 for input = now and
\* for every elapsed duration shorter than two resolution units.
C3_CreateValue ==
    \A c \in CreateCalls :
        /\ (c.r.err = "InvalidTimestampOrder") <=> LessS(c.now, c.input)
        /\ c.r.err = "nil" => IsEpicTSOf(ZeroExt64(c.r.ts), c.elapsed)
        /\ c.input = c.now => c.r = [err |-> "nil", ts |-> U32(0)]
        /\ (Leq(I64(0), c.elapsed) /\ LessS(c.elapsed, I64(42000)))
               => c.r = [err |-> "nil", ts |-> U32(0)]

\* C3 (witness): an elapsed duration of one nanosecond less than one
\* resolution unit gave the timestamp 0 (the clamp of -1).
C3_Witness ==
    \E c \in CreateCalls :
        c.elapsed = I64(20999) /\ c.r = [err |-> "nil", ts |-> U32(0)]

\* (2^32 + 1) * 21us = 90194.313237 s.
C4_Edge == Add(Seconds(90194), I64(313237000))

\* C4: for an input not after now, CreateTimestamp fails with
\* TimestampRangeExceeded exactly when floor((now - input) / 21us) - 1 >= 2^32,
\* that is when now - input >= (2^32 + 1) * 21us; otherwise the uint32 it
\* returns is the value itself, not the value modulo 2^32.  1 day + 63
\* minutes succeeds, 1 day + 64 minutes fails.
C4_Range ==
    \A c \in CreateCalls :
        Leq(c.input, c.now) =>
            /\ (c.r.err = "TimestampRangeExceeded") <=> Leq(C4_Edge, c.elapsed)
            /\ LessS(c.elapsed, C4_Edge) =>
                  /\ c.r.err = "nil"
                  /\ IsEpicTSOf(ZeroExt64(c.r.ts), c.elapsed)
            /\ c.elapsed = Seconds(86400 + 63 * 60) => c.r.err = "nil"
            /\ c.elapsed = Seconds(86400 + 64 * 60) => c.r.err = "TimestampRangeExceeded"

\* C4 (witness): an elapsed duration of 1 day + 64 minutes was refused.
C4_Witness ==
    \E c \in CreateCalls :
        c.elapsed = Seconds(86400 + 64 * 60) /\ c.r.err = "TimestampRangeExceeded"

\* C5: CoreFromPktCounter(PktCounterFromCore(coreID, coreCounter)) is
\* (coreID, coreCounter mod 2^24): the pair itself for a counter below 2^24,
\* and the coreID byte is never altered by the bits of a larger counter.
C5_CounterRoundTrip ==
    (fin.fn = "PktCounterFromCore" /\ Len(fout) = 2) =>
        /\ fout[2].coreID = fin.coreID
        /\ fout[2].coreCounter =
              <<fin.coreCounter[1], fin.coreCounter[2], fin.coreCounter[3], 0>>
        /\ fin.coreCounter[4] = 0 => fout[2].coreCounter = fin.coreCounter
        /\ fout[1][4] = fin.coreID

\* C5 (witness): a counter of 2^24 or more was packed with a core ID and
\* unpacked again.
C5_Witness ==
    /\ fin.fn = "PktCounterFromCore"
    /\ Len(fout) = 2
    /\ fin.coreCounter[4] # 0
    /\ fin.coreID = 1
    /\ fout[2].coreID = 1

\* The encoding of section 4.3 for a header with an N-byte source address:
\* tag, timestamp, packet identifier, source identity, address, payload
\* length, then zero bytes up to total bytes.
ReferenceEncoding(pktID, s, timestamp, total) ==
    LET body == <<s.SrcAddrLen>> \o BigEndian(timestamp) \o SerializeTo(pktID)
                    \o BigEndian(s.SrcIA) \o s.RawSrcAddr \o BigEndian(s.PayloadLen)
    IN  body \o Zero(total - Len(body))

\* C6: for a header with an N-byte source address, N in {4, 8, 12, 16},
\* prepareMacInput returns 32 (N <= 8) or 48 (N >= 12), which is
\* 16 * ceil((23 + N) / 16), and leaves in buffer[0..L) the reference
\* encoding whatever the buffer held before; the bytes from L on are kept.
C6_Encoding ==
    (fin.fn = "prepareMacInput" /\ Len(fout) = 1 /\ fin.s # NilSCION) =>
        LET N == Len(fin.s.RawSrcAddr)
            L == IF N <= 8 THEN 32 ELSE 48
            r == fout[1]
        IN  /\ r.err = "nil"
            /\ r.n = L
            /\ 16 * (L \div 16) = L /\ L - 16 < 23 + N /\ 23 + N <= L
            /\ L <= MACBufferSize
            /\ Len(r.buf) = Len(fin.inputBuffer)
            /\ SubSeq(r.buf, 1, L) = ReferenceEncoding(fin.pktID, fin.s, fin.timestamp, L)
            /\ SubSeq(r.buf, L + 1, Len(r.buf))
                  = SubSeq(fin.inputBuffer, L + 1, Len(fin.inputBuffer))

\* C6 (witness): a 12-byte address was encoded into a buffer that held no
\* zero byte, giving 48 bytes that end in 13 zero bytes.
C6_Witness ==
    /\ fin.fn = "prepareMacInput"
    /\ Len(fout) = 1
    /\ fin.s = H12
    /\ fin.inputBuffer = Filled(MACBufferSize + 16)
    /\ fout[1].n = 48
    /\ SubSeq(fout[1].buf, 36, 48) = Zero(13)

\* The sender's calls followed by the verifier's: CreateTimestamp(input, now)
\* gave ts and VerifyTimestamp(input, ts, vnow) gave r.
RoundTrips ==
    IF fin.fn = "CreateTimestamp" /\ Len(fout) = 2
    THEN {[input |-> fin.input, now |-> fin.now, vnow |-> fin.vnow,
           ts |-> fout[1].ts, r |-> fout[2]]}
    ELSE {}

\* C10 as claimed: the timestamp CreateTimestamp(input, now) returns is
\* accepted by VerifyTimestamp at every verifier instant vnow with
\* now - 1s + 21us <= vnow <= now + 3s.
C10_Claimed ==
    \A c \in RoundTrips :
        (/\ Leq(Add(Sub(c.now, Second), I64(21000)), c.vnow)
         /\ Leq(c.vnow, Add(c.now, Seconds(3))))
            => c.r.err = "nil"

\* C10 as amended: the reconstructed sender instant lies within one
\* resolution unit of now (now - 21us < senderInstant <= now + 21us), and the
\* timestamp is accepted at every verifier instant vnow with
\* now - 1s + 21us <= vnow <= now + 3s - 20999ns, in particular at vnow = now.
C10_RoundTrip ==
    \A c \in RoundTrips :
        LET sender == SenderInstant(c.input, c.ts)
        IN  /\ LessS(Sub(c.now, I64(21000)), sender)
            /\ Leq(sender, Add(c.now, I64(21000)))
            /\ (/\ Leq(Add(Sub(c.now, Second), I64(21000)), c.vnow)
                /\ Leq(c.vnow, Sub(Add(c.now, Seconds(3)), I64(20999))))
                   => c.r.err = "nil"
            /\ c.vnow = c.now => c.r.err = "nil"

\* C10 (witness): a timestamp created 41999ns after the input was accepted
\* by a verifier whose clock read now + 3s - 20999ns, the last instant of
\* its life.
C10_Witness ==
    \E c \in RoundTrips :
        /\ Sub(c.now, c.input) = I64(41999)
        /\ c.vnow = Sub(Add(c.now, Seconds(3)), I64(20999))
        /\ c.r.err = "nil"

(***************************************************************************)
(* Spec: one caller, one scratch buffer, calls one after the other         *)
(*                                                                         *)
(* The caller owns an array of MACBufferSize bytes, scratch, and passes a   *)
(* slice scratch[:k] of it as buffer.  It keeps the slices CalcMac         *)
(* returned (held) and may pass as hvf bytes of its own or a view of its   *)
(* array.                                                                  *)
(***************************************************************************)

MaxCalls == 2

K1     == Tuple([i \in 1..16 |-> i - 1])
K2     == Zero(16)
K24    == Tuple([i \in 1..24 |-> 3 * i])
KShort == Tuple([i \in 1..15 |-> i])

Keys == {K1, K2, K24, KShort}
MacPktIDs == {ID1}
MacHeaders == {NilSCION, H4, H12}
MacTimestamps == {<<4, 3, 2, 1>>}
ScratchLens == {MACBufferSize - 1, MACBufferSize}

\* m with bit b (0..31) flipped.
FlipBit(m, b) ==
    Tuple([i \in 1..Len(m) |->
              IF i = (b \div 8) + 1 THEN XorTab[m[i]][2 ^ (b % 8)] ELSE m[i]])

\* The hvf a caller tries against the authenticator m (<<>> when there is
\* none): m itself, m with one bit flipped, slices of other lengths, and the
\* two views of its array where CalcMac leaves authenticators.
HvfInputs(m) ==
    {OwnBytes(m), OwnBytes(<<>>), OwnBytes(m \o <<0>>), OwnBytes(<<1, 2, 3, 4>>)}
    \cup {OwnBytes(SubSeq(m, 1, Len(m) - 1)) : x \in {y \in {1} : m # <<>>}}
    \cup {OwnBytes(FlipBit(m, b)) : b \in {c \in 0..31 : m # <<>>}}
    \cup {ViewOf(BlockSize, BlockSize + 4), ViewOf(2 * BlockSize, 2 * BlockSize + 4)}

\* What the caller keeps of a returned slice: the slice, the bytes it read
\* when it was returned, and the arguments of the call.
Kept(r, auth, pktID, s, timestamp) ==
    [slice |-> IF r.fresh THEN OwnBytes(MacBytes(r)) ELSE ViewOf(r.lo, r.hi),
     value |-> MacBytes(r),
     auth |-> auth, pktID |-> pktID, s |-> s, timestamp |-> timestamp]

CalcMacCall ==
    /\ last = NoCall
    /\ ncalls < MaxCalls
    /\ \E auth \in Keys, pktID \in MacPktIDs, s \in MacHeaders,
          timestamp \in MacTimestamps, k \in ScratchLens :
          \E r \in {CalcMac(auth, pktID, s, timestamp, SubSeq(scratch, 1, k))} :
              /\ scratch' = r.buffer \o SubSeq(scratch, k + 1, Len(scratch))
              /\ held' = IF r.err = "nil"
                         THEN Append(held, Kept(r, auth, pktID, s, timestamp))
                         ELSE held
              /\ last' = [op |-> "CalcMac", auth |-> auth, pktID |-> pktID, s |-> s,
                          timestamp |-> timestamp, passed |-> k, before |-> scratch,
                          nheld |-> Len(held), err |-> r.err, fresh |-> r.fresh, lo |-> r.lo, hi |-> r.hi,
                          mac |-> IF r.err = "nil" THEN MacBytes(r) ELSE <<>>]
    /\ ncalls' = ncalls + 1
    /\ UNCHANGED <<fin, fout, bufs, procs>>

VerifyHVFCall ==
    /\ last = NoCall
    /\ ncalls < MaxCalls
    /\ \E auth \in Keys, pktID \in MacPktIDs, s \in MacHeaders,
          timestamp \in MacTimestamps, k \in ScratchLens :
          \E mac \in {IF s = NilSCION \/ Len(auth) # AuthLen
                       THEN NoMac("uncalled", <<>>)
                       ELSE CalcMac(auth, pktID, s, timestamp, SubSeq(scratch, 1, k))},
             ref \in {CalcMac(auth, pktID, s, timestamp, <<>>)} :
            \E m \in {IF ref.err = "nil" THEN MacBytes(ref) ELSE <<>>} :
              \E hvf \in HvfInputs(m) :
                \E v \in {VerifyHVF(auth, pktID, s, timestamp, hvf,
                                    SubSeq(scratch, 1, k), mac)} :
                    /\ scratch' = v.buffer \o SubSeq(scratch, k + 1, Len(scratch))
                    /\ last' = [op |-> "VerifyHVF", auth |-> auth, pktID |-> pktID,
                                s |-> s, timestamp |-> timestamp, passed |-> k,
                                before |-> scratch, hvf |-> hvf,
                                hvfBytes |-> Read(hvf, scratch),
                                ref |-> [err |-> ref.err, mac |-> m],
                                err |-> v.err]
    /\ ncalls' = ncalls + 1
    /\ UNCHANGED <<fin, fout, held, bufs, procs>>

\* The caller has looked at the result and goes on.
Proceed ==
    /\ last # NoCall
    /\ last' = NoCall
    /\ UNCHANGED <<fin, fout, scratch, held, ncalls, bufs, procs>>

Init ==
    /\ scratch = Filled(MACBufferSize)
    /\ held = <<>>
    /\ last = NoCall
    /\ ncalls = 0
    /\ FunIdle
    /\ ConcIdle

Next ==
    \/ CalcMacCall
    \/ VerifyHVFCall
    \/ Proceed

Spec == Init /\ [][Next]_vars

(***************************************************************************)
(* Properties of CalcMac and VerifyHVF (checked under Spec)                *)
(***************************************************************************)

\* The last call was VerifyHVF with a header and a 16-byte key.
ValidVerify ==
    /\ last.op = "VerifyHVF"
    /\ last.s # NilSCION
    /\ Len(last.auth) = 16

SameArgs(h, c) ==
    /\ h.auth = c.auth
    /\ h.pktID = c.pktID
    /\ h.s = c.s
    /\ h.timestamp = c.timestamp

\* C1 as claimed: VerifyHVF with a header and a 16-byte key returns nil if
\* and only if the hvf bytes the caller passed equal the authenticator
\* CalcMac produces for the same key, packet identifier, header and
\* timestamp; otherwise it returns MacMismatch.
C1_Claimed ==
    ValidVerify =>
        /\ last.ref.err = "nil"
        /\ last.err \in {"nil", "MacMismatch"}
        /\ (last.err = "nil") <=> (last.hvfBytes = last.ref.mac)

\* C1 (what holds of VerifyHVF): the equivalence of C1_Claimed whenever hvf
\* is not a view of a scratch buffer that the call writes (a buffer of 48
\* bytes or more); such a view is compared as it reads after CalcMac has
\* written the buffer.  A slice that an earlier CalcMac call returned for the
\* same arguments and that still reads its authenticator is accepted.
C1_Verify ==
    ValidVerify =>
        LET written == last.hvf.alias /\ last.passed >= 48
        IN  /\ last.ref.err = "nil"
            /\ Len(last.ref.mac) = 4
            /\ last.err \in {"nil", "MacMismatch"}
            /\ ~written => ((last.err = "nil") <=> (last.hvfBytes = last.ref.mac))
            /\ written => ((last.err = "nil") <=> (Read(last.hvf, scratch) = last.ref.mac))
            /\ \A i \in 1..Len(held) :
                  (/\ SameArgs(held[i], last)
                   /\ last.hvf = held[i].slice
                   /\ last.hvfBytes = held[i].value)
                      => last.err = "nil"

\* C1 (witness): the slice a CalcMac call returned under one key, a view of
\* the scratch buffer, was passed to VerifyHVF with another key and the same
\* buffer, and was accepted although its bytes were not the authenticator.
C1_Witness ==
    /\ ValidVerify
    /\ last.passed = 48
    /\ Len(held) = 1
    /\ held[1].auth # last.auth
    /\ held[1].slice.alias
    /\ last.hvf = held[1].slice
    /\ last.hvfBytes = held[1].value
    /\ last.hvfBytes # last.ref.mac
    /\ last.err = "nil"

\* C1 (round trip): the slice CalcMac returned, a view of the scratch buffer,
\* was passed to VerifyHVF with the same arguments and the same buffer, and
\* was accepted.
C1_RoundTrip ==
    /\ ValidVerify
    /\ last.passed = 48
    /\ Len(held) = 1
    /\ SameArgs(held[1], last)
    /\ held[1].slice.alias
    /\ last.hvf = held[1].slice
    /\ last.err = "nil"

\* The ciphertext of the reference encoding under CBC with a zero iv.
ReferenceCiphertext(auth, pktID, s, timestamp) ==
    LET L == IF Len(s.RawSrcAddr) <= 8 THEN 32 ELSE 48
    IN  CryptBlocks(ExpandKey(auth), Zero(16), ReferenceEncoding(pktID, s, timestamp, L))

\* C7: CalcMac returns the first 4 bytes of the last block of the encrypted
\* input.  With a buffer of 48 bytes or more the slice is a view of the
\* caller's buffer, which holds the ciphertext, and the slice returned last
\* reads its authenticator; with a shorter buffer the slice views fresh
\* storage, the caller's buffer is unchanged and the slices returned earlier
\* read what they read before the call.
C7_Aliasing ==
    (last.op = "CalcMac" /\ last.err = "nil") =>
        LET c   == ReferenceCiphertext(last.auth, last.pktID, last.s, last.timestamp)
            L   == Len(c)
            top == held[Len(held)]
        IN  /\ Len(held) = last.nheld + 1
            /\ last.mac = SubSeq(c, L - 15, L - 12)
            /\ top.value = last.mac
            /\ last.passed >= 48 =>
                  /\ ~last.fresh
                  /\ top.slice = ViewOf(L - 16, L - 12)
                  /\ Read(top.slice, scratch) = last.mac
                  /\ SubSeq(scratch, 1, L) = c
            /\ last.passed < 48 =>
                  /\ last.fresh
                  /\ top.slice = OwnBytes(last.mac)
                  /\ scratch = last.before
                  /\ \A i \in 1..last.nheld :
                        Read(held[i].slice, scratch) = Read(held[i].slice, last.before)

\* C7 (witness): after a second CalcMac call with the same buffer, the slice
\* the first call returned no longer reads the authenticator it returned,
\* while the slice of the second call does.
C7_Witness ==
    /\ last.op = "CalcMac"
    /\ Len(held) = 2
    /\ held[1].slice.alias
    /\ held[2].slice.alias
    /\ Read(held[1].slice, scratch) # held[1].value
    /\ Read(held[2].slice, scratch) = held[2].value

\* C9: VerifyHVF with an absent header or a key that is not 16 bytes long
\* returns InvalidInput; CalcMac with a key the cipher rejects returns
\* KeyInitError, also when the header is absent, and with an accepted key
\* and an absent header returns MissingHeader.  In each case nothing is
\* returned and the caller's buffer is unchanged; VerifyHVF returns no other
\* error than InvalidInput and MacMismatch.
C9_InputErrors ==
    /\ last.op = "VerifyHVF" =>
          /\ (last.s = NilSCION \/ Len(last.auth) # 16) =>
                (last.err = "InvalidInput" /\ scratch = last.before)
          /\ last.err \in {"InvalidInput", "MacMismatch", "nil"}
    /\ last.op = "CalcMac" =>
          /\ Len(last.auth) \notin {16, 24, 32} => last.err = "KeyInitError"
          /\ (Len(last.auth) \in {16, 24, 32} /\ last.s = NilSCION)
                => last.err = "MissingHeader"
          /\ (Len(last.auth) \in {16, 24, 32} /\ last.s # NilSCION)
                => last.err = "nil"
          /\ last.err # "nil" =>
                /\ last.mac = <<>>
                /\ Len(held) = last.nheld
                /\ scratch = last.before

\* C9 (witness): CalcMac with a 15-byte key and no header returned
\* KeyInitError and left the 48-byte buffer it was given as it was.
C9_Witness ==
    /\ last.op = "CalcMac"
    /\ Len(last.auth) = 15
    /\ last.s = NilSCION
    /\ last.passed = 48
    /\ last.err = "KeyInitError"
    /\ scratch = last.before

(***************************************************************************)
(* SpecConc: goroutines that call CalcMac and VerifyHVF concurrently       *)
(*                                                                         *)
(* Goroutine p has a scratch buffer of its own, bufs[p], and there is one  *)
(* more buffer, bufs[NumProcs + 1], which the goroutines chosen in Init    *)
(* pass instead of their own.  A call takes the steps of CalcMac in turn:  *)
(* the checks and the allocation, prepareMacInput, one step of CryptBlocks *)
(* for each block, and the read of the returned slice.  Each step reads    *)
(* and writes the storage as it is when the step is taken.  The steps of   *)
(* goroutines that work in different storage commute, so the size of the   *)
(* steps matters only for goroutines that share a buffer.                  *)
(***************************************************************************)

NumProcs == 2

Procs == 1..NumProcs

SharedBuf == NumProcs + 1

SharedLens == {MACBufferSize - 1, MACBufferSize}

\* The arguments of goroutine p: odd goroutines call CalcMac, even ones call
\* VerifyHVF with the hvf of the packet, a slice of its own.
ArgsOf(p) ==
    [op        |-> IF p % 2 = 1 THEN "CalcMac" ELSE "VerifyHVF",
     auth      |-> K1,
     pktID     |-> [Timestamp |-> U32(7), Counter |-> PktCounterFromCore(p, U32(42))],
     s         |-> IF p % 2 = 1 THEN H4 ELSE H12,
     timestamp |-> <<4, 3, 2, p>>]

\* The authenticator in the packet that goroutine p verifies.
HvfOf ==
    Tuple([p \in Procs |->
        LET a == ArgsOf(p)
        IN  OwnBytes(MacBytes(CalcMac(a.auth, a.pktID, a.s, a.timestamp, <<>>)))])

\* The cipher initEpicMac gives goroutine p, which depends on its key alone.
CipherOf == Tuple([p \in Procs |-> initEpicMac(ArgsOf(p).auth)])

\* The buffer goroutine p passes, and the storage its call works in.
Passed(p) == IF procs[p].shared THEN SharedBuf ELSE p

Storage(p) == IF procs[p].fresh THEN procs[p].store ELSE bufs[Passed(p)]

\* The state with the storage of goroutine p holding b and its record cut to c.
Stored(p, b, c) ==
    /\ procs' = [procs EXCEPT ![p] = IF procs[p].fresh
                                     THEN [c EXCEPT !.store = b]
                                     ELSE c]
    /\ bufs' = IF procs[p].fresh THEN bufs ELSE [bufs EXCEPT ![Passed(p)] = b]

Done(p, e, r) == [procs[p] EXCEPT !.pc = "done", !.err = e, !.result = r]

\* One step of the CBC encrypter's CryptBlocks(src, src) on storage b: block
\* k is xored with the iv, which is the initialization vector for the first
\* block and the previous block of the storage for a later one, then
\* encrypted where it is.
\* (CryptBlockIvKept: every block is xored with the initialization vector.)
CryptBlockIvKept(rk, iv, b, k) ==
    LET src == SubSeq(b, BlockSize * k + 1, BlockSize * (k + 1))
    IN  Write(b, BlockSize * k, EncryptBlock(rk, XorSeq(src, iv)))

CryptBlock(rk, iv, b, k) ==
    LET src  == SubSeq(b, BlockSize * k + 1, BlockSize * (k + 1))
        prev == IF k = 0 THEN iv ELSE SubSeq(b, BlockSize * (k - 1) + 1, BlockSize * k)
    IN  Write(b, BlockSize * k, EncryptBlock(rk, XorSeq(src, prev)))

\* The checks of VerifyHVF, then the allocation and initEpicMac of CalcMac.
Begin(p) ==
    /\ procs[p].pc = "idle"
    /\ LET a     == ArgsOf(p)
           fresh == Len(bufs[Passed(p)]) < MACBufferSize
       IN  procs' = [procs EXCEPT ![p] =
               IF a.op = "VerifyHVF" /\ (a.s = NilSCION \/ Len(a.auth) # AuthLen)
               THEN Done(p, "InvalidInput", <<>>)
               ELSE IF CipherOf[p].err # "nil"
               THEN Done(p, CipherOf[p].err, <<>>)
               ELSE [procs[p] EXCEPT !.pc = "encode", !.fresh = fresh,
                                     !.store = IF fresh THEN Zero(MACBufferSize) ELSE <<>>]]
    /\ UNCHANGED <<bufs, fin, fout, scratch, held, last, ncalls>>

\* prepareMacInput on the storage.
Encode(p) ==
    /\ procs[p].pc = "encode"
    /\ \E r \in {prepareMacInput(ArgsOf(p).pktID, ArgsOf(p).s, ArgsOf(p).timestamp,
                                 Storage(p))} :
          IF r.err # "nil"
          THEN Stored(p, r.buf, Done(p, r.err, <<>>))
          ELSE Stored(p, r.buf, [procs[p] EXCEPT !.pc = "crypt", !.n = r.n, !.k = 0])
    /\ UNCHANGED <<fin, fout, scratch, held, last, ncalls>>

\* CryptBlocks, the next block.
Crypt(p) ==
    /\ procs[p].pc = "crypt"
    /\ \E f \in {CipherOf[p]} :
          \E b \in {CryptBlock(f.rk, f.iv, Storage(p), procs[p].k)} :
             Stored(p, b, [procs[p] EXCEPT
                              !.k  = procs[p].k + 1,
                              !.pc = IF BlockSize * (procs[p].k + 1) = procs[p].n
                                     THEN "read" ELSE "crypt"])
    /\ UNCHANGED <<fin, fout, scratch, held, last, ncalls>>

\* The returned slice is read: by the caller of CalcMac, or by the
\* comparison of VerifyHVF.
Finish(p) ==
    /\ procs[p].pc = "read"
    /\ \E mac \in {SubSeq(Storage(p), procs[p].n - BlockSize + 1,
                                      procs[p].n - BlockSize + 4)} :
          procs' = [procs EXCEPT ![p] =
              IF ArgsOf(p).op = "CalcMac" THEN Done(p, "nil", mac)
              ELSE IF ConstantTimeCompare(Read(HvfOf[p], Storage(p)), mac) = 0
              THEN Done(p, "MacMismatch", <<>>)
              ELSE Done(p, "nil", <<>>)]
    /\ UNCHANGED <<bufs, fin, fout, scratch, held, last, ncalls>>

InitConc ==
    /\ \E n \in SharedLens :
          bufs = [i \in 1..SharedBuf |-> Filled(IF i = SharedBuf THEN n ELSE MACBufferSize)]
    /\ \E sharing \in SUBSET Procs :
          procs = [p \in Procs |->
                      [pc |-> "idle", shared |-> p \in sharing, fresh |-> FALSE,
                       store |-> <<>>, n |-> 0, k |-> 0, err |-> "nil", result |-> <<>>]]
    /\ FunIdle
    /\ SeqIdle

NextConc == \E p \in Procs : Begin(p) \/ Encode(p) \/ Crypt(p) \/ Finish(p)

SpecConc == InitConc /\ [][NextConc]_vars

(***************************************************************************)
(* Properties of concurrent calls (checked under SpecConc)                 *)
(***************************************************************************)

\* What the call of goroutine p gives when it runs alone on the buffer b.
Alone(p, b) ==
    LET a   == ArgsOf(p)
        mac == CalcMac(a.auth, a.pktID, a.s, a.timestamp, b)
    IN  IF a.op = "CalcMac"
        THEN [err |-> mac.err, result |-> MacBytes(mac), buffer |-> mac.buffer]
        ELSE [err    |-> VerifyHVF(a.auth, a.pktID, a.s, a.timestamp, HvfOf[p], b, mac).err,
              result |-> <<>>,
              buffer |-> mac.buffer]

\* Alone, for a buffer shorter than 48 bytes and for one of 48 bytes.
AloneOn ==
    Tuple([p \in Procs |-> [short |-> Alone(p, Filled(MACBufferSize - 1)),
                            full  |-> Alone(p, Filled(MACBufferSize))]])

AloneWith(p, n) == IF n < MACBufferSize THEN AloneOn[p].short ELSE AloneOn[p].full

\* Goroutine p passes a buffer that another goroutine passes too.
Shares(p) == procs[p].shared /\ \E q \in Procs \ {p} : procs[q].shared

\* C8: a call that has returned and whose buffer no other goroutine passes,
\* or whose buffer is shorter than 48 bytes, has given the error and the
\* authenticator it gives when run alone, whatever the other goroutines did
\* in between, and a buffer that only this call writes holds what the call
\* run alone leaves in it.
C8_Isolated ==
    \A p \in Procs :
        (procs[p].pc = "done" /\ (~Shares(p) \/ Len(bufs[SharedBuf]) < MACBufferSize)) =>
            LET alone == AloneWith(p, Len(bufs[Passed(p)]))
            IN  /\ procs[p].err = alone.err
                /\ procs[p].result = alone.result
                /\ ~Shares(p) => bufs[Passed(p)] = alone.buffer

\* C8 (witness): the goroutines passed the same buffer of 48 bytes and all
\* have returned; the CalcMac call of goroutine 1 returned without error an
\* authenticator that is not the one it gives when run alone.
C8_Witness ==
    /\ Shares(1)
    /\ Len(bufs[SharedBuf]) = MACBufferSize
    /\ \A p \in Procs : procs[p].pc = "done"
    /\ procs[1].err = "nil"
    /\ procs[1].result # AloneOn[1].full.result

\* C8 (witness): two goroutines, each passing its own buffer of 48 bytes,
\* have both returned after their steps were interleaved.
C8_Distinct ==
    /\ \A p \in Procs : procs[p].pc = "done" /\ ~procs[p].shared /\ ~procs[p].fresh
    /\ procs[1].result = AloneOn[1].full.result
    /\ procs[2].err = "nil"

====
